---- MODULE Spec2Model ----
(***************************************************************************)
(* A model of agent.py: the generate -> test -> self-correct loop that     *)
(* asks a generative model for a parser, saves it, runs it and compares    *)
(* its output with the reference table.                                    *)
(*                                                                         *)
(* Text is a sequence of characters.  The alphabet keeps the characters    *)
(* the code looks at: the backquote (three of them are a fence), "p" (the  *)
(* word python after a fence), a newline (whitespace) and "x" (the rest).  *)
(***************************************************************************)
EXTENDS Integers, Sequences, FiniteSets, TLC

VARIABLES
    pc,             \* where the run is
    max_attempts,   \* --max-attempts
    pdf_disk,       \* data/<bank>/<bank>_sample.pdf: "missing", "ok", "unreadable"
    csv_disk,       \* data/<bank>/<bank>_sample.csv: Missing, Unparsable or a table
    artifact,       \* custom_parser/<bank>_parser.py: NoFile or its text
    expected_df,    \* agent_loop's expected_df
    attempt,        \* the loop variable of agent_loop
    previous_code,  \* agent_loop's previous_code
    error_msg,      \* agent_loop's error_msg
    prompt,         \* the description handed to call_llm
    generated_code, \* agent_loop's generated_code (the response, then the source)
    success,        \* agent_loop's success
    behaviour,      \* what the persisted candidate does when loaded and run
    blocked,        \* the external call that has not returned: "none", "llm", "candidate"
    exit_status,    \* the process's exit status, NoStatus while it runs
    returned,       \* what agent_loop returned: "none", "True" or "False"
    stop,           \* why the run ended, "none" while it runs
    llm_calls,      \* history: number of call_llm calls
    validate_calls, \* history: number of test_parser calls
    attempts_used,  \* history: the attempt numbers the loop took, in order
    outcomes,       \* history: the success flag of every test_parser call, in order
    composed,       \* history: number of build_prompt calls
    saves,          \* history: number of save_parser calls
    llm_failures,   \* history: number of call_llm calls in which the service raised
    inputs_missing, \* history: the document or the reference was missing at the start
    artifact_before,\* history: the artifact when the current attempt began
    inner,          \* extraction check: the source text S the response carries
    shape           \* extraction check: how the response carries it

vars == <<pc, max_attempts, pdf_disk, csv_disk, artifact, expected_df, attempt,
          previous_code, error_msg, prompt, generated_code, success, behaviour,
          blocked, exit_status, returned, stop, llm_calls, validate_calls, attempts_used,
          outcomes, composed, saves, llm_failures, inputs_missing,
          artifact_before, inner, shape>>

-----------------------------------------------------------------------------
(* Bounds *)

MaxAttempts == 3    \* largest --max-attempts a run is started with
MaxInner == 4       \* longest source text S of the extraction check
MaxRows == 2        \* most rows of a table of the harness check

-----------------------------------------------------------------------------
(* Text *)

BQ == "bq"   \* one backquote
NL == "nl"   \* a newline
Alphabet == {BQ, "p", NL, "x"}
Whitespace == {NL}

\* Python's None for a text: a sequence no text equals
None == <<"None">>

\* the fence markers the clean-up looks for: "```python" and "```"
FencePython == <<BQ, BQ, BQ, "p">>
Fence == <<BQ, BQ, BQ>>

Texts(n) == UNION {[1..k -> Alphabet] : k \in 0..n}

\* sep occurs in s at position i
OccursAt(s, sep, i) == i + Len(sep) - 1 <= Len(s) /\ SubSeq(s, i, i + Len(sep) - 1) = sep

\* `sep in s`
Contains(s, sep) == \E i \in 1..(Len(s) + 1) : OccursAt(s, sep, i)

\* s.find(sep, start), counted from 1; 0 when sep does not occur from start on
FindFrom(s, sep, start) ==
    LET at == {i \in start..(Len(s) + 1) : OccursAt(s, sep, i)}
    IN  IF at = {} THEN 0 ELSE CHOOSE i \in at : \A j \in at : i <= j

\* The pieces of s[start:] between the non-overlapping occurrences of sep, left to
\* right.  (The one-element sets name a value that is computed once.)
RECURSIVE SplitFrom(_, _, _)
SplitFrom(s, sep, start) ==
    CHOOSE pieces \in
        { IF i = 0
          THEN <<SubSeq(s, start, Len(s))>>
          ELSE <<SubSeq(s, start, i - 1)>> \o SplitFrom(s, sep, i + Len(sep)) :
            i \in {FindFrom(s, sep, start)} } : TRUE

\* s.split(sep)
Split(s, sep) == SplitFrom(s, sep, 1)

\* the places of s that hold no whitespace
Inked(s) == {i \in 1..Len(s) : s[i] \notin Whitespace}

\* s.strip(): s from its first to its last character that is no whitespace
Strip(s) ==
    LET ink == Inked(s)
    IN  IF ink = {}
        THEN <<>>
        ELSE SubSeq(s, CHOOSE i \in ink : \A j \in ink : i <= j,
                       CHOOSE i \in ink : \A j \in ink : j <= i)

\* the clean-up without its last line, the strip
ExtractNoStrip(response) ==
    IF Contains(response, FencePython)
    THEN CHOOSE code \in
            {Split(tail, Fence)[1] : tail \in {Split(response, FencePython)[2]}} : TRUE
    ELSE IF Contains(response, Fence)
         THEN CHOOSE code \in
                {Split(tail, Fence)[1] : tail \in {Split(response, Fence)[2]}} : TRUE
         ELSE response

\* The clean-up of agent_loop: x.split("```python")[1].split("```")[0] with a labelled
\* fence in the response x, else x.split("```")[1].split("```")[0] with a fence in it,
\* else x; then strip()
Extract(response) ==
    IF Contains(response, FencePython)
    THEN CHOOSE code \in
            {Strip(piece) : piece \in
                {Split(tail, Fence)[1] : tail \in {Split(response, FencePython)[2]}}} : TRUE
    ELSE IF Contains(response, Fence)
         THEN CHOOSE code \in
                {Strip(piece) : piece \in
                    {Split(tail, Fence)[1] : tail \in {Split(response, Fence)[2]}}} : TRUE
         ELSE Strip(response)

-----------------------------------------------------------------------------
(* Tables: a pandas DataFrame is its ordered column names, the dtype of    *)
(* each column, its rows of cells and its row labels ("range" for the      *)
(* labels 0..n-1 that read_csv gives, "other" for any other labels).       *)

Dtypes == {"int64", "float64", "object"}
Cells == {"1", "nan"}

ColumnLists == {<<"Date">>, <<"Date", "Amt">>, <<"Amt", "Date">>}

\* an int64 column holds no missing value
CellFits(cell, dtype) == dtype = "int64" => cell # "nan"

TablesOver(cols, maxRows) ==
    { [columns |-> cols, dtypes |-> dt, rows |-> rs, index |-> ix] :
        dt \in [1..Len(cols) -> Dtypes],
        rs \in UNION {[1..n -> [1..Len(cols) -> Cells]] : n \in 0..maxRows},
        ix \in {"range", "other"} }

\* the tables kept: the cells fit the dtypes, a table of no rows has the default row
\* labels, and object columns are kept for the tables of no rows only
WellFormed(df) ==
    /\ \A r \in 1..Len(df.rows) : \A c \in 1..Len(df.columns) :
            CellFits(df.rows[r][c], df.dtypes[c])
    /\ Len(df.rows) = 0 => df.index = "range"
    /\ Len(df.rows) > 0 => \A c \in 1..Len(df.columns) : df.dtypes[c] # "object"

Tables(maxRows) == {df \in UNION {TablesOver(cols, maxRows) : cols \in ColumnLists} : WellFormed(df)}

\* what pd.read_csv can give: default row labels, and object columns when the file holds
\* the header line only
References(maxRows) ==
    {df \in Tables(maxRows) :
        /\ df.index = "range"
        /\ Len(df.rows) = 0 => \A c \in 1..Len(df.columns) : df.dtypes[c] = "object"}

EmptyTable == [columns |-> <<>>, dtypes |-> <<>>, rows |-> <<>>, index |-> "range"]

\* df.shape
Shape(df) == <<Len(df.rows), Len(df.columns)>>

\* a comparison cell by cell with ==, under which a missing value equals nothing
DfEqualsByCells(expected, actual) ==
    /\ expected.columns = actual.columns
    /\ expected.index = actual.index
    /\ expected.dtypes = actual.dtypes
    /\ expected.rows = actual.rows
    /\ \A r \in 1..Len(expected.rows) : \A c \in 1..Len(expected.columns) :
            expected.rows[r][c] # "nan"

\* expected.equals(actual): same axes (row labels, column labels), same dtypes, same
\* cells, a missing value equal to a missing value in the same place
DfEquals(expected, actual) ==
    /\ expected.columns = actual.columns
    /\ expected.index = actual.index
    /\ expected.dtypes = actual.dtypes
    /\ expected.rows = actual.rows

-----------------------------------------------------------------------------
(* The candidate: what the persisted source does when the harness loads    *)
(* and runs it.  load is exec_module, entry the lookup and call of parse,  *)
(* call the body of parse, ret its return value, effect what it does to    *)
(* the reference file.                                                     *)

NoError == [kind |-> "None", detail |-> <<>>]

\* `if error_msg`: None is falsy, every message the harness builds is a non-empty text
Truthy(msg) == msg.kind # "None"

\* `if previous_code`: None and the empty text are falsy
TruthyText(s) == s # None /\ s # <<>>

DataFrameValue(df) == [type |-> "DataFrame", df |-> df]
NoneValue == [type |-> "NoneType", df |-> EmptyTable]

Loads == {"ok", "SyntaxError", "SystemExit", "hang"}
Entries == {"ok", "AttributeError", "TypeError"}
Calls == {"returns", "ValueError", "SystemExit", "hang"}
Effects == {"none", "rewrite", "delete"}

\* the stage at which the candidate takes control away from the harness, "none" when
\* every stage returns or raises an Exception
Interrupt(b) ==
    IF b.load \in {"SystemExit", "hang"} THEN b.load
    ELSE IF b.load # "ok" \/ b.entry # "ok" THEN "none"
    ELSE IF b.call \in {"SystemExit", "hang"} THEN b.call
    ELSE "none"

ExecutionError(name) == [kind |-> "Code execution error", detail |-> <<name>>]

\* test_parser with the shape compared before the columns
test_parser_unordered(b, expected) ==
    IF b.load # "ok" THEN [success |-> FALSE, error_msg |-> ExecutionError(b.load)]
    ELSE IF b.entry # "ok" THEN [success |-> FALSE, error_msg |-> ExecutionError(b.entry)]
    ELSE IF b.call # "returns" THEN [success |-> FALSE, error_msg |-> ExecutionError(b.call)]
    ELSE IF b.ret.type # "DataFrame"
    THEN [success |-> FALSE,
          error_msg |-> [kind |-> "parse() returned", detail |-> <<b.ret.type>>]]
    ELSE IF Shape(b.ret.df) # Shape(expected)
    THEN [success |-> FALSE,
          error_msg |-> [kind |-> "Shape mismatch!",
                         detail |-> <<Shape(expected), Shape(b.ret.df)>>]]
    ELSE IF b.ret.df.columns # expected.columns
    THEN [success |-> FALSE,
          error_msg |-> [kind |-> "Column mismatch!",
                         detail |-> <<expected.columns, b.ret.df.columns>>]]
    ELSE IF DfEquals(expected, b.ret.df)
    THEN [success |-> TRUE, error_msg |-> NoError]
    ELSE IF Len(expected.rows) = 0
    THEN [success |-> FALSE, error_msg |-> ExecutionError("IndexError")]
    ELSE [success |-> FALSE,
          error_msg |-> [kind |-> "DataFrames not exactly equal",
                         detail |-> <<expected.rows[1], b.ret.df.rows[1],
                                      expected.dtypes, b.ret.df.dtypes>>]]

\* test_parser, for a candidate that returns control: (success, error_msg).  The three
\* stages under `try` end in the same message, built from the exception; building the
\* last message reads the first row, which a table of no rows does not have
test_parser(b, expected) ==
    IF b.load # "ok" THEN [success |-> FALSE, error_msg |-> ExecutionError(b.load)]
    ELSE IF b.entry # "ok" THEN [success |-> FALSE, error_msg |-> ExecutionError(b.entry)]
    ELSE IF b.call # "returns" THEN [success |-> FALSE, error_msg |-> ExecutionError(b.call)]
    ELSE IF b.ret.type # "DataFrame"
    THEN [success |-> FALSE,
          error_msg |-> [kind |-> "parse() returned", detail |-> <<b.ret.type>>]]
    ELSE IF b.ret.df.columns # expected.columns
    THEN [success |-> FALSE,
          error_msg |-> [kind |-> "Column mismatch!",
                         detail |-> <<expected.columns, b.ret.df.columns>>]]
    ELSE IF Shape(b.ret.df) # Shape(expected)
    THEN [success |-> FALSE,
          error_msg |-> [kind |-> "Shape mismatch!",
                         detail |-> <<Shape(expected), Shape(b.ret.df)>>]]
    ELSE IF DfEquals(expected, b.ret.df)
    THEN [success |-> TRUE, error_msg |-> NoError]
    ELSE IF Len(expected.rows) = 0
    THEN [success |-> FALSE, error_msg |-> ExecutionError("IndexError")]
    ELSE [success |-> FALSE,
          error_msg |-> [kind |-> "DataFrames not exactly equal",
                         detail |-> <<expected.rows[1], b.ret.df.rows[1],
                                      expected.dtypes, b.ret.df.dtypes>>]]

-----------------------------------------------------------------------------
(* Files *)

NoFile == <<"NoFile">>

CsvMissing == [state |-> "missing", df |-> EmptyTable]
CsvUnparsable == [state |-> "unparsable", df |-> EmptyTable]
Csv(df) == [state |-> "ok", df |-> df]

\* The references and candidate outputs of the runs of the loop
RefA ==
    [columns |-> <<"Date", "Amt">>, dtypes |-> <<"int64", "float64">>,
     rows |-> << <<"1", "nan">> >>, index |-> "range"]
RefB ==
    [columns |-> <<"Date">>, dtypes |-> <<"int64">>,
     rows |-> << <<"1">>, <<"1">> >>, index |-> "range"]
LoopReferences == {RefA, RefB}
LoopTables ==
    LoopReferences \cup
    { [RefA EXCEPT !.rows = << <<"1", "1">> >>],
      [RefA EXCEPT !.rows = << <<"1", "nan">>, <<"1", "nan">> >>],
      [RefA EXCEPT !.columns = <<"Amt", "Date">>] }

-----------------------------------------------------------------------------
(* peek_pdf_structure and build_prompt *)

\* an exception that leaves the function it is raised in, as a value
Raised == "raise"

\* peek_pdf_structure without its try: the exception of pdfplumber leaves it
peek_pdf_structure_raising(pdf) ==
    IF pdf = "ok" THEN "PDF has pages" ELSE Raised

\* peek_pdf_structure: the structure of the first page, or the text of the exception
peek_pdf_structure(pdf) ==
    IF pdf = "ok" THEN "PDF has pages" ELSE "Could not analyze PDF"

\* df.head(3)
Head3(rows) == SubSeq(rows, 1, IF Len(rows) < 3 THEN Len(rows) ELSE 3)

NoPrompt ==
    [pdf_structure |-> "", columns |-> <<>>, dtypes |-> <<>>, rows |-> 0,
     sample |-> <<>>, feedback |-> FALSE, failed_attempt |-> 0, error_msg |-> NoError,
     previous_code |-> None]

\* build_prompt with the number of the call written into the text (a counter, a clock)
build_prompt_counting(pdf, csv, code, msg, n) ==
    [pdf_structure |-> peek_pdf_structure(pdf),
     columns |-> csv.df.columns,
     dtypes |-> csv.df.dtypes,
     rows |-> Len(csv.df.rows),
     sample |-> Head3(csv.df.rows),
     feedback |-> TruthyText(code) /\ Truthy(msg),
     failed_attempt |-> composed,
     error_msg |-> IF TruthyText(code) /\ Truthy(msg) THEN msg ELSE NoError,
     previous_code |-> IF TruthyText(code) /\ Truthy(msg) THEN code ELSE None]

\* build_prompt, for a reference file that pd.read_csv reads: the parts of the text that
\* vary.  feedback says whether the error-correction section is there; failed_attempt,
\* error_msg and previous_code are what that section embeds.
build_prompt(pdf, csv, code, msg, n) ==
    [pdf_structure |-> peek_pdf_structure(pdf),
     columns |-> csv.df.columns,
     dtypes |-> csv.df.dtypes,
     rows |-> Len(csv.df.rows),
     sample |-> Head3(csv.df.rows),
     feedback |-> TruthyText(code) /\ Truthy(msg),
     failed_attempt |-> IF TruthyText(code) /\ Truthy(msg) THEN n - 1 ELSE 0,
     error_msg |-> IF TruthyText(code) /\ Truthy(msg) THEN msg ELSE NoError,
     previous_code |-> IF TruthyText(code) /\ Truthy(msg) THEN code ELSE None]

-----------------------------------------------------------------------------
(* The responses of the generative model and the candidates they carry *)

Shapes == {"labeled", "unlabeled", "bare"}

\* a response that carries the source text S in a labelled fenced block, in an
\* unlabelled fenced block, or with no fencing
Response(sh, S) ==
    IF sh = "labeled" THEN FencePython \o <<NL>> \o S \o <<NL>> \o Fence
    ELSE IF sh = "unlabeled" THEN Fence \o <<NL>> \o S \o <<NL>> \o Fence
    ELSE S

\* the answers of the model in the runs of the loop: how the response carries the
\* source text, and the source text
LoopResponses ==
    {<<"bare", <<>>>>, <<"bare", <<"x">>>>, <<"unlabeled", <<NL>>>>, <<"labeled", <<"x">>>>}

CandidateExitCodes == {0, 1}

Behaviour(load, entry, call, ret, effect, code) ==
    [load |-> load, entry |-> entry, call |-> call, ret |-> ret, effect |-> effect,
     exit_code |-> code]

\* a module with no statement in it: it loads, and it has no parse
EmptyModule == Behaviour("ok", "AttributeError", "returns", NoneValue, "none", 0)

\* one behaviour for each way a candidate can end at each stage; what a candidate that
\* exits or hangs did to the reference file before is left out, the run being over
StagedBehaviours(returns, effects) ==
    {Behaviour("SyntaxError", "ok", "returns", NoneValue, e, 0) : e \in effects}
    \cup {Behaviour("SystemExit", "ok", "returns", NoneValue, "none", c) :
            c \in CandidateExitCodes}
    \cup {Behaviour("hang", "ok", "returns", NoneValue, "none", 0)}
    \cup {Behaviour("ok", n, "returns", NoneValue, e, 0) :
            n \in Entries \ {"ok"}, e \in effects}
    \cup {Behaviour("ok", "ok", "ValueError", NoneValue, e, 0) : e \in effects}
    \cup {Behaviour("ok", "ok", "SystemExit", NoneValue, "none", c) :
            c \in CandidateExitCodes}
    \cup {Behaviour("ok", "ok", "hang", NoneValue, "none", 0)}
    \cup {Behaviour("ok", "ok", "returns", r, e, 0) : r \in returns, e \in effects}

\* what a persisted source text can do when loaded and run
CandidateBehaviours(code) ==
    IF code = <<>>
    THEN {EmptyModule}
    ELSE StagedBehaviours({NoneValue} \cup {DataFrameValue(df) : df \in LoopTables}, Effects)

\* the reference file after the candidate ran
AfterEffect(csv, effect) ==
    IF effect = "delete" THEN CsvMissing
    ELSE IF effect = "rewrite" THEN (IF csv = Csv(RefA) THEN Csv(RefB) ELSE Csv(RefA))
    ELSE csv

-----------------------------------------------------------------------------
(* agent_loop and main *)

\* range(1, max_attempts + 1): the value after a, and whether the range holds a
StuckAttempt(a) == a
NextAttempt(a) == a + 1
InRangeOffByOne(a, n) == a <= n + 1
InRange(a, n) == a <= n

Init ==
    /\ pc = "Start"
    /\ max_attempts \in -1..MaxAttempts
    /\ pdf_disk \in {"missing", "ok", "unreadable"}
    /\ csv_disk \in {CsvMissing, CsvUnparsable} \cup {Csv(df) : df \in LoopReferences}
    /\ artifact \in {NoFile, <<"p">>}
    /\ expected_df = EmptyTable
    /\ attempt = 0
    /\ previous_code = None
    /\ error_msg = NoError
    /\ prompt = NoPrompt
    /\ generated_code = None
    /\ success = FALSE
    /\ behaviour = EmptyModule
    /\ blocked = "none"
    /\ exit_status = -1
    /\ returned = "none"
    /\ stop = "none"
    /\ llm_calls = 0
    /\ validate_calls = 0
    /\ attempts_used = <<>>
    /\ outcomes = <<>>
    /\ composed = 0
    /\ saves = 0
    /\ llm_failures = 0
    /\ inputs_missing = (pdf_disk = "missing" \/ csv_disk.state = "missing")
    /\ artifact_before = artifact
    /\ inner = <<>>
    /\ shape = "bare"

Running == blocked = "none" /\ stop = "none"

\* agent_loop returns v
Return(v, why) ==
    /\ pc' = "Returned"
    /\ returned' = v
    /\ stop' = why
    /\ UNCHANGED exit_status

\* the process ends with status n: sys.exit(n), or an exception nobody catches (status 1)
Exit(n, why) ==
    /\ pc' = "Exited"
    /\ exit_status' = n
    /\ stop' = why
    /\ UNCHANGED returned

\* the checks with their `return False` lost: the messages are printed and the run goes on
CheckInputsNoReturn ==
    /\ pc = "Start" /\ Running
    /\ pc' = "Load"
    /\ UNCHANGED <<max_attempts, pdf_disk, csv_disk, artifact, expected_df, attempt,
                   previous_code, error_msg, prompt, generated_code, success, behaviour,
                   blocked, exit_status, returned, stop, llm_calls, validate_calls,
                   attempts_used, outcomes, composed, saves, llm_failures, inputs_missing,
                   artifact_before, inner, shape>>

\* agent_loop, "Validate inputs exist"
CheckInputs ==
    /\ pc = "Start" /\ Running
    /\ IF pdf_disk = "missing" \/ csv_disk.state = "missing"
       THEN Return("False", "precondition")
       ELSE pc' = "Load" /\ UNCHANGED <<returned, stop, exit_status>>
    /\ UNCHANGED <<max_attempts, pdf_disk, csv_disk, artifact, expected_df, attempt,
                   previous_code, error_msg, prompt, generated_code, success, behaviour,
                   blocked, llm_calls, validate_calls, attempts_used, outcomes, composed,
                   saves, inner, shape, llm_failures,
                   inputs_missing, artifact_before>>

\* the load with a reference that cannot be parsed taken for an empty table
LoadExpectedLenient ==
    /\ pc = "Load" /\ Running
    /\ expected_df' = csv_disk.df
    /\ previous_code' = None
    /\ error_msg' = NoError
    /\ pc' = "Loop"
    /\ UNCHANGED <<max_attempts, pdf_disk, csv_disk, artifact, attempt, prompt,
                   generated_code, success, behaviour, blocked, llm_calls, validate_calls,
                   attempts_used, outcomes, composed, saves, inner, shape, llm_failures,
                   inputs_missing, artifact_before, returned, stop, exit_status>>

\* agent_loop, "Load expected output" and the two assignments before the loop
LoadExpected ==
    /\ pc = "Load" /\ Running
    /\ IF csv_disk.state # "ok"
       THEN Exit(1, "reference_load") /\ UNCHANGED <<expected_df, previous_code, error_msg>>
       ELSE /\ expected_df' = csv_disk.df
            /\ previous_code' = None
            /\ error_msg' = NoError
            /\ pc' = "Loop"
            /\ UNCHANGED <<returned, stop, exit_status>>
    /\ UNCHANGED <<max_attempts, pdf_disk, csv_disk, artifact, attempt, prompt,
                   generated_code, success, behaviour, blocked, llm_calls, validate_calls,
                   attempts_used, outcomes, composed, saves, inner, shape, llm_failures,
                   inputs_missing, artifact_before>>

\* the for statement: the next attempt, or the statements after the loop
LoopHead ==
    /\ pc = "Loop" /\ Running
    /\ Len(attempts_used) <= max_attempts + 1   \* keeps the histories finite; never binds
    /\ IF InRange(NextAttempt(attempt), max_attempts)
       THEN /\ attempt' = NextAttempt(attempt)
            /\ attempts_used' = Append(attempts_used, NextAttempt(attempt))
            /\ artifact_before' = artifact
            /\ pc' = "Compose"
            /\ UNCHANGED <<returned, stop, exit_status>>
       ELSE /\ Return("False", "exhausted")
            /\ UNCHANGED <<attempt, attempts_used, artifact_before>>
    /\ UNCHANGED <<max_attempts, pdf_disk, csv_disk, artifact, expected_df, previous_code,
                   error_msg, prompt, generated_code, success, behaviour, blocked,
                   llm_calls, validate_calls, outcomes, composed, saves, inner, shape, llm_failures,
                   inputs_missing>>

\* the call of build_prompt, which reads the reference file again and then probes the
\* document; an exception that leaves either ends the process
Compose ==
    /\ pc = "Compose" /\ Running
    /\ composed' = composed + 1
    /\ IF csv_disk.state # "ok"
       THEN Exit(1, "compose") /\ UNCHANGED prompt
       ELSE IF peek_pdf_structure(pdf_disk) = Raised
       THEN Exit(1, "probe") /\ UNCHANGED prompt
       ELSE /\ prompt' = build_prompt(pdf_disk, csv_disk, previous_code, error_msg, attempt)
            /\ pc' = "Generate"
            /\ UNCHANGED <<returned, stop, exit_status>>
    /\ UNCHANGED <<max_attempts, pdf_disk, csv_disk, artifact, expected_df, attempt,
                   previous_code, error_msg, generated_code, success, behaviour, blocked,
                   llm_calls, validate_calls, attempts_used, outcomes, saves, inner,
                   shape, llm_failures, inputs_missing, artifact_before>>

\* call_llm returns the response of the model
LlmReturns ==
    /\ pc = "Generate" /\ Running
    /\ llm_calls' = llm_calls + 1
    /\ \E r \in LoopResponses :
        /\ shape' = r[1]
        /\ inner' = r[2]
        /\ generated_code' = Response(r[1], r[2])
    /\ pc' = "Extract"
    /\ UNCHANGED <<max_attempts, pdf_disk, csv_disk, artifact, expected_df, attempt,
                   previous_code, error_msg, prompt, success, behaviour, blocked,
                   exit_status, returned, stop, validate_calls, attempts_used, outcomes,
                   composed, saves,
                   llm_failures, inputs_missing, artifact_before>>

\* call_llm that swallows the exception and returns an empty text
LlmFailsReturnsEmpty ==
    /\ pc = "Generate" /\ Running
    /\ llm_calls' = llm_calls + 1
    /\ llm_failures' = llm_failures + 1
    /\ generated_code' = <<>>
    /\ pc' = "Extract"
    /\ UNCHANGED <<max_attempts, pdf_disk, csv_disk, artifact, expected_df, attempt,
                   previous_code, error_msg, prompt, success, behaviour, blocked,
                   exit_status, returned, stop, validate_calls, attempts_used, outcomes,
                   composed, saves, inner, shape, inputs_missing, artifact_before>>

\* call_llm catches an exception of the service: sys.exit(1)
LlmFails ==
    /\ pc = "Generate" /\ Running
    /\ llm_calls' = llm_calls + 1
    /\ llm_failures' = llm_failures + 1
    /\ Exit(1, "service")
    /\ UNCHANGED <<max_attempts, pdf_disk, csv_disk, artifact, expected_df, attempt,
                   previous_code, error_msg, prompt, generated_code, success, behaviour,
                   blocked, validate_calls, attempts_used, outcomes, composed, saves,
                   inner, shape, inputs_missing, artifact_before>>

\* the request never returns: the call has no timeout
LlmHangs ==
    /\ pc = "Generate" /\ Running
    /\ llm_calls' = llm_calls + 1
    /\ blocked' = "llm"
    /\ UNCHANGED <<pc, max_attempts, pdf_disk, csv_disk, artifact, expected_df, attempt,
                   previous_code, error_msg, prompt, generated_code, success, behaviour,
                   exit_status, returned, stop, validate_calls, attempts_used, outcomes,
                   composed, saves, inner, shape, llm_failures,
                   inputs_missing, artifact_before>>

\* the clean-up followed at once by the test, the save left out
ExtractStepSkipsPersist ==
    /\ pc = "Extract" /\ Running
    /\ generated_code' = Extract(generated_code)
    /\ pc' = "Validate"
    /\ UNCHANGED <<max_attempts, pdf_disk, csv_disk, artifact, expected_df, attempt,
                   previous_code, error_msg, prompt, success, behaviour, blocked,
                   exit_status, returned, stop, llm_calls, validate_calls, attempts_used,
                   outcomes, composed, saves, inner, shape, llm_failures,
                   inputs_missing, artifact_before>>

\* "Clean up code (remove markdown if present)"
ExtractStep ==
    /\ pc = "Extract" /\ Running
    /\ generated_code' = Extract(generated_code)
    /\ pc' = "Persist"
    /\ UNCHANGED <<max_attempts, pdf_disk, csv_disk, artifact, expected_df, attempt,
                   previous_code, error_msg, prompt, success, behaviour, blocked,
                   exit_status, returned, stop, llm_calls, validate_calls, attempts_used,
                   outcomes, composed, saves, inner, shape, llm_failures,
                   inputs_missing, artifact_before>>

\* save_parser with the file opened with 'a': the text is added to what the file holds
save_parser_append(file, code) == IF file = NoFile THEN code ELSE file \o code

\* save_parser: the file is opened with 'w' and the text written
save_parser(file, code) == code

Persist ==
    /\ pc = "Persist" /\ Running
    /\ artifact' = save_parser(artifact, generated_code)
    /\ saves' = saves + 1
    /\ pc' = "Validate"
    /\ UNCHANGED <<max_attempts, pdf_disk, csv_disk, expected_df, attempt, previous_code,
                   error_msg, prompt, generated_code, success, behaviour, blocked,
                   exit_status, returned, stop, llm_calls, validate_calls, attempts_used,
                   outcomes, composed, inner, shape, llm_failures,
                   inputs_missing, artifact_before>>

\* At pc = "Validate": test_parser loads and runs the candidate b, which returns or
\* raises an Exception
ValidateReturns(b) ==
    /\ Interrupt(b) = "none"
    /\ behaviour' = b
    /\ validate_calls' = validate_calls + 1
    /\ csv_disk' = AfterEffect(csv_disk, b.effect)
    /\ success' = test_parser(b, expected_df).success
    /\ error_msg' = test_parser(b, expected_df).error_msg
    /\ outcomes' = Append(outcomes, test_parser(b, expected_df).success)
    /\ pc' = "Decide"
    /\ UNCHANGED <<max_attempts, pdf_disk, artifact, expected_df, attempt, previous_code,
                   prompt, generated_code, blocked, exit_status, returned, stop, llm_calls,
                   attempts_used, composed, saves, inner, shape, llm_failures,
                   inputs_missing, artifact_before>>

\* the candidate raises SystemExit, which `except Exception` does not catch
ValidateExits(b) ==
    /\ Interrupt(b) = "SystemExit"
    /\ behaviour' = b
    /\ validate_calls' = validate_calls + 1
    /\ csv_disk' = AfterEffect(csv_disk, b.effect)
    /\ Exit(b.exit_code, "candidate_exit")
    /\ UNCHANGED <<max_attempts, pdf_disk, artifact, expected_df, attempt, previous_code,
                   error_msg, prompt, generated_code, success, blocked, llm_calls,
                   attempts_used, outcomes, composed, saves, inner, shape, llm_failures,
                   inputs_missing, artifact_before>>

\* the candidate never returns: it runs in the process, with no timeout
ValidateHangs(b) ==
    /\ Interrupt(b) = "hang"
    /\ behaviour' = b
    /\ validate_calls' = validate_calls + 1
    /\ csv_disk' = AfterEffect(csv_disk, b.effect)
    /\ blocked' = "candidate"
    /\ UNCHANGED <<pc, max_attempts, pdf_disk, artifact, expected_df, attempt,
                   previous_code, error_msg, prompt, generated_code, success, exit_status,
                   returned, stop, llm_calls, attempts_used, outcomes, composed, saves,
                   inner, shape, llm_failures,
                   inputs_missing, artifact_before>>

\* the branch with its `return True` lost: the loop goes on after a success
DecideNoReturn ==
    /\ pc = "Decide" /\ Running
    /\ previous_code' = IF success THEN previous_code ELSE generated_code
    /\ pc' = "Loop"
    /\ UNCHANGED <<max_attempts, pdf_disk, csv_disk, artifact, expected_df, attempt,
                   error_msg, prompt, generated_code, success, behaviour, blocked,
                   exit_status, returned, stop, llm_calls, validate_calls, attempts_used,
                   outcomes, composed, saves, llm_failures, inputs_missing,
                   artifact_before, inner, shape>>

\* the branch with previous_code set by the first failure only
DecideStaleCode ==
    /\ pc = "Decide" /\ Running
    /\ IF success
       THEN Return("True", "ok") /\ UNCHANGED previous_code
       ELSE /\ previous_code' = IF previous_code = None THEN generated_code ELSE previous_code
            /\ pc' = "Loop"
            /\ UNCHANGED <<returned, stop, exit_status>>
    /\ UNCHANGED <<max_attempts, pdf_disk, csv_disk, artifact, expected_df, attempt,
                   error_msg, prompt, generated_code, success, behaviour, blocked,
                   llm_calls, validate_calls, attempts_used, outcomes, composed, saves,
                   inner, shape, llm_failures,
                   inputs_missing, artifact_before>>

\* `if success: return True`, else previous_code is set and the loop goes on
Decide ==
    /\ pc = "Decide" /\ Running
    /\ IF success
       THEN Return("True", "ok") /\ UNCHANGED previous_code
       ELSE /\ previous_code' = generated_code
            /\ pc' = "Loop"
            /\ UNCHANGED <<returned, stop, exit_status>>
    /\ UNCHANGED <<max_attempts, pdf_disk, csv_disk, artifact, expected_df, attempt,
                   error_msg, prompt, generated_code, success, behaviour, blocked,
                   llm_calls, validate_calls, attempts_used, outcomes, composed, saves,
                   inner, shape, llm_failures,
                   inputs_missing, artifact_before>>

\* main: sys.exit(0 if success else 1)
ExitStatus(r) == IF r = "True" THEN 0 ELSE 1

MainExit ==
    /\ pc = "Returned"
    /\ pc' = "Exited"
    /\ exit_status' = ExitStatus(returned)
    /\ UNCHANGED <<max_attempts, pdf_disk, csv_disk, artifact, expected_df, attempt,
                   previous_code, error_msg, prompt, generated_code, success, behaviour,
                   blocked, returned, stop, llm_calls, validate_calls, attempts_used,
                   outcomes, composed, saves, inner, shape, llm_failures,
                   inputs_missing, artifact_before>>

ValidateLoopReturns ==
    /\ pc = "Validate" /\ Running
    /\ \E b \in CandidateBehaviours(artifact) : ValidateReturns(b)
ValidateLoopExits ==
    /\ pc = "Validate" /\ Running
    /\ \E b \in CandidateBehaviours(artifact) : ValidateExits(b)
ValidateLoopHangs ==
    /\ pc = "Validate" /\ Running
    /\ \E b \in CandidateBehaviours(artifact) : ValidateHangs(b)

Next ==
    \/ CheckInputs
    \/ LoadExpected
    \/ LoopHead
    \/ Compose
    \/ LlmReturns
    \/ LlmFails
    \/ LlmHangs
    \/ ExtractStep
    \/ Persist
    \/ ValidateLoopReturns
    \/ ValidateLoopExits
    \/ ValidateLoopHangs
    \/ Decide
    \/ MainExit

Spec == Init /\ [][Next]_vars

\* The interpreter runs one thread and keeps running it: a step that can be taken is taken
FairSpec == Spec /\ WF_vars(Next)

-----------------------------------------------------------------------------
(* The harness on its own: test_parser called once, on every reference of  *)
(* the bounded tables and every candidate                                  *)

\* the tables a candidate returns and the references the harness is given
HarnessTables == Tables(MaxRows)
HarnessReferences == References(MaxRows)

\* every combination of the stages' ways to end, and every table as the return value
HarnessBehaviours(expected) ==
    {Behaviour(l, n, k, r, "none", 0) :
        l \in Loads, n \in Entries, k \in Calls,
        r \in {NoneValue, DataFrameValue(expected)}}
    \cup {Behaviour("ok", "ok", "returns", DataFrameValue(df), "none", 0) :
            df \in HarnessTables}

HarnessInit ==
    /\ pc = "Validate"
    /\ max_attempts = 1
    /\ pdf_disk = "ok"
    /\ expected_df \in HarnessReferences
    /\ csv_disk = Csv(expected_df)
    /\ artifact = <<"x">>
    /\ attempt = 1
    /\ previous_code = None
    /\ error_msg = NoError
    /\ prompt = build_prompt("ok", Csv(expected_df), None, NoError, 1)
    /\ generated_code = <<"x">>
    /\ success = FALSE
    /\ behaviour = EmptyModule
    /\ blocked = "none"
    /\ exit_status = -1
    /\ returned = "none"
    /\ stop = "none"
    /\ llm_calls = 1
    /\ validate_calls = 0
    /\ attempts_used = <<1>>
    /\ outcomes = <<>>
    /\ composed = 1
    /\ saves = 1
    /\ llm_failures = 0
    /\ inputs_missing = FALSE
    /\ artifact_before = NoFile
    /\ inner = <<"x">>
    /\ shape = "bare"

HarnessReturns ==
    /\ pc = "Validate" /\ Running
    /\ \E b \in HarnessBehaviours(expected_df) : ValidateReturns(b)
HarnessExits ==
    /\ pc = "Validate" /\ Running
    /\ \E b \in HarnessBehaviours(expected_df) : ValidateExits(b)
HarnessHangs ==
    /\ pc = "Validate" /\ Running
    /\ \E b \in HarnessBehaviours(expected_df) : ValidateHangs(b)

HarnessNext ==
    \/ HarnessReturns
    \/ HarnessExits
    \/ HarnessHangs

HarnessSpec == HarnessInit /\ [][HarnessNext]_vars

-----------------------------------------------------------------------------
(* The clean-up on its own: one response for every source text S of the    *)
(* bounded texts and every way to carry it                                 *)

ExtractInit ==
    /\ pc = "Extract"
    /\ max_attempts = 1
    /\ pdf_disk = "ok"
    /\ expected_df = RefA
    /\ csv_disk = Csv(RefA)
    /\ artifact = NoFile
    /\ attempt = 1
    /\ previous_code = None
    /\ error_msg = NoError
    /\ prompt = build_prompt("ok", Csv(RefA), None, NoError, 1)
    /\ inner \in Texts(MaxInner)
    /\ shape \in Shapes
    /\ generated_code = Response(shape, inner)
    /\ success = FALSE
    /\ behaviour = EmptyModule
    /\ blocked = "none"
    /\ exit_status = -1
    /\ returned = "none"
    /\ stop = "none"
    /\ llm_calls = 1
    /\ validate_calls = 0
    /\ attempts_used = <<1>>
    /\ outcomes = <<>>
    /\ composed = 1
    /\ saves = 0
    /\ llm_failures = 0
    /\ inputs_missing = FALSE
    /\ artifact_before = NoFile

ExtractNext == ExtractStep

ExtractSpec == ExtractInit /\ [][ExtractNext]_vars

-----------------------------------------------------------------------------
(* Properties *)

Last(seq) == seq[Len(seq)]
Ended == stop # "none"

\* C1: with max attempts = N >= 0, call_llm and test_parser are each called at most N
\* times, and the attempt numbers taken are exactly 1, 2, ..., k for some k <= N.
C1_AtMostNCycles ==
    max_attempts >= 0 =>
        /\ llm_calls <= max_attempts
        /\ validate_calls <= max_attempts
        /\ Len(attempts_used) <= max_attempts
        /\ \A i \in 1..Len(attempts_used) : attempts_used[i] = i

C1_Witness ==
    /\ max_attempts >= 2
    /\ Len(attempts_used) = max_attempts
    /\ llm_calls = max_attempts
    /\ validate_calls = max_attempts
    /\ stop = "exhausted"

\* C2 as stated: every run eventually ends (the process exits), whatever the model
\* answers and whatever the candidate does.
C2_AlwaysEnds == <>(pc = "Exited")

\* the attempts the budget still allows
Budget == IF max_attempts > attempt THEN max_attempts - attempt ELSE 0

\* the place of pc in the order of the steps of one attempt, the later the smaller
Rank ==
    CASE pc = "Start" -> 11
      [] pc = "Load" -> 10
      [] pc = "Compose" -> 8
      [] pc = "Generate" -> 7
      [] pc = "Extract" -> 6
      [] pc = "Persist" -> 5
      [] pc = "Validate" -> 4
      [] pc = "Decide" -> 3
      [] pc = "Loop" -> 2
      [] pc = "Returned" -> 1
      [] pc = "Exited" -> 0

\* a bound on the steps the run can still take
StepsLeft == 9 * Budget + Rank + (IF blocked = "none" THEN 1 ELSE 0)

\* C2, amended: the run eventually ends unless a call of the generative model or an
\* execution of the candidate never returns; and every step of the run lowers StepsLeft,
\* which is never negative, so that the run takes at most 9 * N + 12 steps.
C2_EndsUnlessBlocked ==
    /\ <>(pc = "Exited" \/ blocked # "none")
    /\ [](StepsLeft >= 0)
    /\ [][StepsLeft' < StepsLeft]_vars

C2_Witness ==
    /\ pc = "Exited"
    /\ stop = "exhausted"
    /\ blocked = "none"
    /\ validate_calls = max_attempts
    /\ max_attempts >= 2

\* C3: a success is the last thing the loop validates: after it nothing is composed,
\* generated, persisted or validated and agent_loop returns True; True is returned only
\* when the last attempt taken validated Success; False is returned after an attempt only
\* when all N attempts were taken and each failed.
C3_StopsOnFirstSuccess ==
    /\ \A i \in 1..(Len(outcomes) - 1) : ~outcomes[i]
    /\ (outcomes # <<>> /\ Last(outcomes)) =>
            /\ composed = Len(outcomes)
            /\ llm_calls = Len(outcomes)
            /\ saves = Len(outcomes)
            /\ validate_calls = Len(outcomes)
            /\ Len(attempts_used) = Len(outcomes)
            /\ pc \in {"Decide", "Returned", "Exited"}
            /\ pc # "Decide" => returned = "True"
    /\ returned = "True" =>
            /\ outcomes # <<>> /\ Last(outcomes)
            /\ Len(outcomes) = Len(attempts_used)
    /\ (returned = "False" /\ attempts_used # <<>>) =>
            /\ Len(attempts_used) = max_attempts
            /\ Len(outcomes) = max_attempts
            /\ \A i \in 1..Len(outcomes) : ~outcomes[i]

C3_Witness ==
    /\ returned = "True"
    /\ Len(outcomes) = 2
    /\ max_attempts > 2

C3_WitnessExhausted ==
    /\ returned = "False"
    /\ Len(outcomes) = max_attempts
    /\ max_attempts >= 2

\* C4 as stated: the exit status is 0 exactly when some attempt validated Success, and
\* 1 in every other case in which the process ends.
C4_ExitStatus ==
    pc = "Exited" =>
        /\ exit_status = 0 <=> \E i \in 1..Len(outcomes) : outcomes[i]
        /\ exit_status \in {0, 1}

\* C4 holds of the runs in which no candidate raises SystemExit
C4_ExitStatusUnlessCandidateExits ==
    (pc = "Exited" /\ stop # "candidate_exit") =>
        /\ exit_status = 0 <=> \E i \in 1..Len(outcomes) : outcomes[i]
        /\ exit_status \in {0, 1}

\* C5: with the document or the reference missing at the start, no attempt is made:
\* nothing is composed, the model is not called, the artifact is neither written nor
\* overwritten, no candidate is run; agent_loop returns False and the status is 1.
C5_MissingInputNoAttempt ==
    inputs_missing =>
        /\ attempts_used = <<>>
        /\ composed = 0 /\ prompt = NoPrompt
        /\ llm_calls = 0
        /\ saves = 0 /\ artifact = artifact_before
        /\ validate_calls = 0
        /\ pc \in {"Start", "Returned", "Exited"}
        /\ pc # "Start" => returned = "False"
        /\ pc = "Exited" => exit_status = 1

C5_Witness ==
    /\ inputs_missing
    /\ pdf_disk = "ok"
    /\ max_attempts >= 1
    /\ artifact # NoFile
    /\ pc = "Exited"

\* C6: a failure of the call of the generative model at attempt k ends the run at once
\* with a non-zero status: it is the last call of the model, attempt k extracts, persists
\* and validates nothing, and the artifact is what it was before attempt k.
C6_ServiceFailureFatal ==
    llm_failures > 0 =>
        /\ llm_failures = 1
        /\ pc = "Exited" /\ stop = "service"
        /\ exit_status = 1
        /\ llm_calls = attempt
        /\ saves = attempt - 1
        /\ validate_calls = attempt - 1
        /\ Len(outcomes) = attempt - 1
        /\ artifact = artifact_before
        /\ ~ENABLED Next

C6_Witness ==
    /\ llm_failures = 1
    /\ attempt >= 2
    /\ attempt < max_attempts
    /\ artifact # NoFile

\* C7 as stated: the description composed for an attempt n > 1 holds the source text of
\* attempt n-1 and a non-empty failure text, whatever that source text is.
C7_FeedbackInclusion ==
    (pc = "Generate" /\ attempt > 1) =>
        /\ prompt.feedback
        /\ prompt.previous_code = artifact_before
        /\ Truthy(prompt.error_msg)

\* C7 holds of the attempts that follow a candidate whose source text is not empty
C7_FeedbackInclusionNonEmpty ==
    (pc = "Generate" /\ attempt > 1 /\ artifact_before # <<>>) =>
        /\ prompt.feedback
        /\ prompt.previous_code = artifact_before
        /\ Truthy(prompt.error_msg)
        /\ prompt.failed_attempt = attempt - 1

\* the candidate was loaded, had its entry point and returned from it
Ran(b) == b.load = "ok" /\ b.entry = "ok" /\ b.call = "returns"

\* C8: the first stage that fails, in the order load, entry point, execution, type,
\* columns, shape, equality, classifies the outcome alone: a value that is no table is
\* a type failure; a different ordered column list is a column mismatch whatever the
\* shape; the same columns with another row count is a shape mismatch.
C8_ShortCircuitOrder ==
    pc = "Decide" =>
        /\ behaviour.load # "ok" => error_msg = ExecutionError(behaviour.load)
        /\ (behaviour.load = "ok" /\ behaviour.entry # "ok") =>
                error_msg = ExecutionError(behaviour.entry)
        /\ (behaviour.load = "ok" /\ behaviour.entry = "ok" /\ behaviour.call # "returns") =>
                error_msg = ExecutionError(behaviour.call)
        /\ (Ran(behaviour) /\ behaviour.ret.type # "DataFrame") =>
                error_msg.kind = "parse() returned"
        /\ (Ran(behaviour) /\ behaviour.ret.type = "DataFrame"
                /\ behaviour.ret.df.columns # expected_df.columns) =>
                error_msg.kind = "Column mismatch!"
        /\ (Ran(behaviour) /\ behaviour.ret.type = "DataFrame"
                /\ behaviour.ret.df.columns = expected_df.columns
                /\ Len(behaviour.ret.df.rows) # Len(expected_df.rows)) =>
                error_msg.kind = "Shape mismatch!"
        /\ ~Ran(behaviour) \/ behaviour.ret.type # "DataFrame" => ~success

C8_Witness ==
    /\ pc = "Decide"
    /\ Ran(behaviour)
    /\ behaviour.ret.type = "DataFrame"
    /\ behaviour.ret.df.columns # expected_df.columns
    /\ Shape(behaviour.ret.df) # Shape(expected_df)
    /\ error_msg.kind = "Column mismatch!"

\* the two column lists hold the same names in another order
Swapped(cols, other) ==
    /\ Len(cols) = Len(other)
    /\ {cols[i] : i \in 1..Len(cols)} = {other[i] : i \in 1..Len(other)}
    /\ cols # other

\* what a table that is not the reference is classified as
Classified(actual, expected, msg) ==
    /\ (actual.columns = expected.columns /\ Shape(actual) = Shape(expected)
            /\ actual.rows # expected.rows) =>
            ~success /\ msg.kind = "DataFrames not exactly equal"
    /\ Swapped(actual.columns, expected.columns) =>
            ~success /\ msg.kind = "Column mismatch!"
    /\ (actual.columns = expected.columns /\ Len(actual.rows) # Len(expected.rows)) =>
            ~success /\ msg.kind = "Shape mismatch!"

\* C9 as stated: an output with the reference's ordered columns, shape, dtypes and cells
\* is a Success; a differing cell, a column swap, another row count is the failure of
\* its kind.
C9_ExactMatch ==
    (pc = "Decide" /\ Ran(behaviour) /\ behaviour.ret.type = "DataFrame") =>
        /\ (behaviour.ret.df.columns = expected_df.columns
                /\ Shape(behaviour.ret.df) = Shape(expected_df)
                /\ behaviour.ret.df.dtypes = expected_df.dtypes
                /\ behaviour.ret.df.rows = expected_df.rows) => success
        /\ Classified(behaviour.ret.df, expected_df, error_msg)

\* C9, amended: an output with the reference's ordered columns, shape, dtypes, cells and
\* row labels is a Success; a differing cell, a column swap, another row count is the
\* failure of its kind.
C9_ExactMatchWithRowLabels ==
    (pc = "Decide" /\ Ran(behaviour) /\ behaviour.ret.type = "DataFrame") =>
        /\ (behaviour.ret.df.columns = expected_df.columns
                /\ Shape(behaviour.ret.df) = Shape(expected_df)
                /\ behaviour.ret.df.dtypes = expected_df.dtypes
                /\ behaviour.ret.df.rows = expected_df.rows
                /\ behaviour.ret.df.index = expected_df.index) => success
        /\ Classified(behaviour.ret.df, expected_df, error_msg)

C9_Witness ==
    /\ pc = "Decide"
    /\ success
    /\ Len(expected_df.rows) = 2
    /\ Len(expected_df.columns) = 2
    /\ expected_df.rows[2][2] = "nan"

\* C10 as stated: a response that carries the source text S in a labelled fenced block,
\* in an unlabelled fenced block or with no fencing gives S trimmed, for every S.
C10_SameInnerSource == pc = "Persist" => generated_code = Strip(inner)

\* C10, amended: the same, for every S that holds no fence (three backquotes in a row).
C10_SameInnerSourceNoFence ==
    (pc = "Persist" /\ ~Contains(inner, Fence)) => generated_code = Strip(inner)

C10_Witness ==
    /\ pc = "Persist"
    /\ shape = "labeled"
    /\ ~Contains(inner, Fence)
    /\ inner = <<NL, "x", BQ, NL>>
    /\ generated_code = <<"x", BQ>>

-----------------------------------------------------------------------------
(* Faults of the candidate *)

\* C11 as stated: no fault of the candidate ends the run: every fault raised while the
\* harness loads or runs the candidate is a Failure outcome handed to the loop, and the
\* number of outcomes is the number of candidates that were run and gave control back.
C11_CandidateFaultsRetryable ==
    /\ stop # "candidate_exit"
    /\ (pc = "Decide" /\ ~Ran(behaviour)) => ~success /\ Truthy(error_msg)
    /\ (blocked = "none" /\ pc # "Validate") => Len(outcomes) = validate_calls

\* what holds: a fault that is an Exception is a Failure outcome, and the loop goes on
\* to the next attempt when the budget allows; the run ends in the harness only by a
\* candidate that raises SystemExit
C11_ExceptionsRetryable ==
    /\ stop = "candidate_exit" => Interrupt(behaviour) = "SystemExit"
    /\ (pc = "Decide" /\ ~Ran(behaviour)) =>
            /\ ~success
            /\ error_msg.kind = "Code execution error"
            /\ Len(outcomes) = validate_calls
    /\ (pc = "Compose" /\ attempt > 1) => ~Last(outcomes) /\ Len(outcomes) = attempt - 1

-----------------------------------------------------------------------------
(* The artifact slot *)

\* C12: the one artifact file is overwritten by every attempt, whatever its outcome: from
\* the moment attempt k is persisted the file holds the extracted source of attempt k and
\* nothing else, every attempt that reached Persist wrote it, at Stop(ok) it holds the
\* candidate that validated Success and at Stop(fail) the candidate of the last attempt.
C12_OneSlotOverwritten ==
    /\ attempts_used = <<>> => saves = 0 /\ artifact = artifact_before
    /\ pc \in {"Validate", "Decide", "Loop"} /\ attempts_used # <<>> =>
            /\ saves = Len(attempts_used)
            /\ artifact = generated_code
    /\ stop = "ok" =>
            /\ saves = Len(attempts_used)
            /\ artifact = generated_code
            /\ Last(outcomes)
            /\ behaviour \in CandidateBehaviours(artifact)
    /\ (stop = "exhausted" /\ attempts_used # <<>>) =>
            /\ saves = max_attempts
            /\ artifact = generated_code
            /\ artifact = previous_code
            /\ ~Last(outcomes)

C12_Witness ==
    /\ stop = "ok"
    /\ Len(outcomes) = 2
    /\ artifact_before = <<>>
    /\ artifact = <<"x">>

C12_WitnessExhausted ==
    /\ stop = "exhausted"
    /\ max_attempts = 2
    /\ artifact_before = <<"x">>
    /\ artifact = <<>>

-----------------------------------------------------------------------------
(* The detail of a value mismatch *)

\* the candidate returned a table with the reference's columns and shape that
\* expected_df.equals() rejects
Unequal ==
    /\ pc = "Decide"
    /\ Ran(behaviour)
    /\ behaviour.ret.type = "DataFrame"
    /\ behaviour.ret.df.columns = expected_df.columns
    /\ Shape(behaviour.ret.df) = Shape(expected_df)
    /\ ~DfEquals(expected_df, behaviour.ret.df)

\* the first row at which the two tables differ, 0 when no row differs
FirstDivergentRow(expected, actual) ==
    LET rs == {r \in 1..Len(expected.rows) : expected.rows[r] # actual.rows[r]}
    IN  IF rs = {} THEN 0 ELSE CHOOSE r \in rs : \A q \in rs : r <= q

\* C13 as stated: with the reference's columns and shape and not equal to it, the outcome
\* is a value mismatch whose detail holds the first row at which the tables differ, from
\* each side, and both dtype maps; also when that row is not the first one and when the
\* tables have no rows.
C13_ValueMismatchDetail ==
    Unequal =>
        /\ ~success
        /\ error_msg.kind = "DataFrames not exactly equal"
        /\ error_msg.detail[3] = expected_df.dtypes
        /\ error_msg.detail[4] = behaviour.ret.df.dtypes
        /\ FirstDivergentRow(expected_df, behaviour.ret.df) > 0 =>
                /\ error_msg.detail[1] =
                        expected_df.rows[FirstDivergentRow(expected_df, behaviour.ret.df)]
                /\ error_msg.detail[2] =
                        behaviour.ret.df.rows[FirstDivergentRow(expected_df, behaviour.ret.df)]

\* what holds: the detail holds row 0 of each side, wherever the tables differ, and both
\* dtype maps; with no rows, reading row 0 raises IndexError inside the `try` and the
\* outcome is an execution error
C13_FirstRowDetail ==
    Unequal =>
        /\ ~success
        /\ IF Len(expected_df.rows) = 0
           THEN error_msg = ExecutionError("IndexError")
           ELSE /\ error_msg.kind = "DataFrames not exactly equal"
                /\ error_msg.detail = <<expected_df.rows[1], behaviour.ret.df.rows[1],
                                        expected_df.dtypes, behaviour.ret.df.dtypes>>

\* the tables differ in their second row only, and the detail shows two equal rows
C13_SecondRowHidden ==
    /\ Unequal
    /\ FirstDivergentRow(expected_df, behaviour.ret.df) = 2
    /\ error_msg.kind = "DataFrames not exactly equal"
    /\ error_msg.detail[1] = error_msg.detail[2]
    /\ expected_df.dtypes = behaviour.ret.df.dtypes

\* the tables have no rows and differ in a dtype: the outcome is an execution error
C13_NoRowsIndexError ==
    /\ Unequal
    /\ Len(expected_df.rows) = 0
    /\ expected_df.dtypes # behaviour.ret.df.dtypes
    /\ error_msg = ExecutionError("IndexError")

-----------------------------------------------------------------------------
(* The composer *)

-----------------------------------------------------------------------------
(* The probe of the document *)

\* C15: a document that cannot be probed never ends the run: no run stops in the probe,
\* and with such a document every attempt is composed, with the explanatory text in the
\* place of the structure, and goes on to the call of the model.
C15_ProbeNeverAborts ==
    /\ stop # "probe"
    /\ (pdf_disk = "unreadable" /\ pc \in {"Generate", "Extract", "Persist", "Validate"}) =>
            /\ prompt.pdf_structure = "Could not analyze PDF"
            /\ prompt.pdf_structure # Raised
            /\ composed = attempt
            /\ llm_calls \in {attempt - 1, attempt}

C15_Witness ==
    /\ pdf_disk = "unreadable"
    /\ pc = "Extract"
    /\ attempt = 2
    /\ llm_calls = 2
    /\ prompt.pdf_structure = "Could not analyze PDF"

-----------------------------------------------------------------------------
(* The order of the steps *)

\* how many times each step has been taken when attempt k is at pc: the steps before pc
\* k times, pc and the steps after it k - 1 times (a call that has not returned counts)
StepCounts(k) ==
    CASE pc = "Compose" -> <<k - 1, k - 1, k - 1, k - 1>>
      [] pc = "Generate" -> <<k, IF blocked = "llm" THEN k ELSE k - 1, k - 1, k - 1>>
      [] pc \in {"Extract", "Persist"} -> <<k, k, k - 1, k - 1>>
      [] pc = "Validate" -> <<k, k, k, IF blocked = "candidate" THEN k ELSE k - 1>>
      [] pc \in {"Decide", "Loop"} -> <<k, k, k, k>>
      [] OTHER -> <<composed, llm_calls, saves, validate_calls>>

\* one step of the run follows the order of the loop
StepOrder ==
    /\ pc = "Compose" => pc' \in {"Generate", "Exited"}
    /\ pc = "Generate" => pc' \in {"Extract", "Exited"} \/ blocked' = "llm"
    /\ pc = "Extract" => pc' = "Persist"
    /\ pc = "Persist" => pc' = "Validate" /\ artifact' = generated_code
    /\ pc = "Validate" =>
            /\ pc' \in {"Decide", "Exited"} \/ blocked' = "candidate"
            /\ artifact = generated_code
            /\ saves = attempt
            /\ behaviour' \in CandidateBehaviours(artifact)
    /\ pc = "Decide" => pc' \in {"Loop", "Returned"}
    /\ pc' = "Compose" =>
            /\ pc = "Loop"
            /\ attempt' = attempt + 1
            /\ Len(outcomes) = attempt
            /\ \A i \in 1..Len(outcomes) : ~outcomes[i]
    /\ attempt' # attempt => pc' = "Compose"

\* C16: in every attempt the steps are taken in the order Compose, Generate, Extract,
\* Persist, Validate, each once; an attempt begins only when the one before it has been
\* validated a Failure; and the harness runs the artifact persisted in the same attempt.
C16_StepsInOrder ==
    /\ [](<<composed, llm_calls, saves, validate_calls>> = StepCounts(attempt))
    /\ [][StepOrder]_vars

C16_Witness ==
    /\ pc = "Decide"
    /\ attempt = 3
    /\ <<composed, llm_calls, saves, validate_calls>> = <<3, 3, 3, 3>>
    /\ outcomes = <<FALSE, FALSE, TRUE>>

-----------------------------------------------------------------------------
(* The task *)

\* the schema the description conveys is that of the reference the harness compares with
ConveysReference ==
    /\ prompt.columns = expected_df.columns
    /\ prompt.dtypes = expected_df.dtypes
    /\ prompt.rows = Len(expected_df.rows)
    /\ prompt.sample = Head3(expected_df.rows)

\* C17 as stated: the description of every attempt conveys the schema of the reference
\* that attempt's output is validated against, the same in every attempt, and composing
\* never fails for want of the reference, whatever the candidates did to the files.
C17_TaskFixed ==
    /\ pc \in {"Generate", "Extract", "Persist", "Validate", "Decide"} => ConveysReference
    /\ stop # "compose"

\* what holds: the reference in memory is loaded once and never changes, and the
\* description conveys it as long as the reference file is what it was when loaded
C17_TaskFixedWhileFileUntouched ==
    /\ (pc \in {"Generate", "Extract", "Persist"} /\ csv_disk = Csv(expected_df)) =>
            ConveysReference
    /\ attempt = 1 /\ pc \in {"Generate", "Extract", "Persist", "Validate", "Decide"} =>
            ConveysReference
    /\ stop = "compose" => attempt > 1 /\ behaviour.effect = "delete"

\* the description of a later attempt conveys another schema than the one validated against
C17_OtherSchemaConveyed ==
    /\ pc = "Validate"
    /\ attempt = 2
    /\ prompt.columns # expected_df.columns
    /\ behaviour.effect = "rewrite"

-----------------------------------------------------------------------------
(* The feedback *)

\* the steps of an attempt that follow its Compose step
AfterCompose == {"Generate", "Extract", "Persist", "Validate", "Decide"}

\* C18: attempt 1 is composed with no previous code and no failure, and its description
\* has no feedback section; at the Compose step of attempt n >= 2 the previous code is the
\* source persisted and run in attempt n-1 and the failure is the outcome of that run;
\* a description holds feedback only in attempts 2..N, and then the code and the failure
\* of attempt n-1.
C18_FeedbackPairsPrecedingAttempt ==
    /\ (attempt = 1 /\ pc = "Compose") => previous_code = None /\ error_msg = NoError
    /\ (attempt = 1 /\ pc \in AfterCompose) =>
            /\ ~prompt.feedback
            /\ prompt.previous_code = None
            /\ prompt.error_msg = NoError
    /\ (attempt >= 2 /\ pc = "Compose") =>
            /\ saves = attempt - 1 /\ validate_calls = attempt - 1
            /\ previous_code = artifact
            /\ previous_code = artifact_before
            /\ behaviour \in CandidateBehaviours(previous_code)
            /\ error_msg = test_parser(behaviour, expected_df).error_msg
            /\ Truthy(error_msg)
    /\ (pc \in AfterCompose /\ prompt.feedback) =>
            /\ attempt \in 2..max_attempts
            /\ prompt.failed_attempt = attempt - 1
            /\ prompt.previous_code = artifact_before
            /\ pc # "Decide" => prompt.error_msg = error_msg

C18_Witness ==
    /\ pc = "Generate"
    /\ attempt = 3
    /\ prompt.feedback
    /\ prompt.failed_attempt = 2
    /\ prompt.previous_code = <<"x">>
    /\ prompt.error_msg.kind = "Shape mismatch!"

-----------------------------------------------------------------------------
(* A reference that cannot be parsed *)

\* C19: with a reference file that is there and cannot be parsed, the run ends before any
\* attempt: nothing is composed, the model is not called, no artifact is written, no
\* candidate is run, and the process ends with a status that is not 0.
C19_UnparsableReferenceFatal ==
    csv_disk.state = "unparsable" =>
        /\ pc \in {"Start", "Load", "Returned", "Exited"}
        /\ attempts_used = <<>> /\ attempt = 0
        /\ composed = 0 /\ prompt = NoPrompt
        /\ llm_calls = 0
        /\ saves = 0 /\ artifact = artifact_before
        /\ validate_calls = 0
        /\ returned # "True"
        /\ pc = "Exited" => exit_status # 0 /\ stop \in {"reference_load", "precondition"}
        /\ (pc = "Exited" /\ pdf_disk # "missing") => stop = "reference_load"

C19_Witness ==
    /\ csv_disk.state = "unparsable"
    /\ pdf_disk = "ok"
    /\ max_attempts >= 1
    /\ artifact # NoFile
    /\ pc = "Exited"
    /\ stop = "reference_load"
    /\ exit_status = 1

====
